---- MODULE Spec2Model ----
(***************************************************************************)
(* Model of backend/pyspur/execution/workflow_executor.py.  Spec is one     *)
(* call of WorkflowExecutor.run on a freshly constructed executor, with    *)
(* the default node_ids and no precomputed outputs; SpecPartial is one     *)
(* call of run with node_ids or precomputed outputs; SpecUnvalidated is a  *)
(* run over definitions whose router links may lack a source_handle;       *)
(* SpecBatch is one call of run_batch; SpecHoist is one call of            *)
(* _process_subworkflows.  The event loop is single-threaded and           *)
(* cooperative: every action of a run is the code that runs between two    *)
(* suspension points (await) of one coroutine.                             *)
(***************************************************************************)
EXTENDS Integers, Sequences, FiniteSets, TLC

\* ------------------------------------------------------------------ bounds
MaxNodes == 4
MaxPreds == 2
MaxSpecial == 2
MaxPrecomputed == 1
MaxRequested == 2
MaxInputs == 3
MaxBatch == 2

\* ------------------------------------------------------------- vocabulary
Nodes == 1..MaxNodes
InputNodeId == 1
Handles == {"yes", "no"}
NoHandle == ""

\* The key under which the user's input mapping is kept in a node input.
InputKey == 0

\* Values a node output slot or a task result can hold.  "absent" is a
\* missing dictionary key, "none" is Python's None.
Val(kind, node, handle, blocked, resume_time) ==
    [kind |-> kind, node |-> node, handle |-> handle,
     blocked_nodes |-> blocked, resume_time |-> resume_time]
NoTime == "null"
SomeTime == "resumed"
Absent == Val("absent", 0, NoHandle, {}, NoTime)
None == Val("none", 0, NoHandle, {}, NoTime)
PlainOutput(n) == Val("plain", n, NoHandle, {}, NoTime)
InputMapping == Val("input", 0, NoHandle, {}, NoTime)
RouteValue(n, h) == Val("route", n, h, {}, NoTime)
RouterOutput(n, h) == Val("router", n, h, {}, NoTime)
HumanInterventionNodeOutput(n, blocked, resume_time) ==
    Val("human", n, NoHandle, blocked, resume_time)
Raised(exc, n) == Val(exc, n, NoHandle, {}, NoTime)

Exceptions == {"UpstreamFailure", "UnconnectedNode", "ValueError",
               "NodeFailure", "PauseException"}
IsException(v) == v.kind \in Exceptions
IsNone(v) == v.kind = "none"

\* ------------------------------------------------- workflow definitions
\* workflow is the definition the executor is built from: node_type maps
\* every node id to its type, links is the set of link records (at most one
\* link per ordered pair of nodes; node ids are numbered in a topological
\* order, so the graph is acyclic).  behaviour is what the node instances
\* made by NodeFactory do when they are awaited: invocation says whether
\* the call returns, throws or raises PauseException, route is the handle a
\* router selects, blocked_nodes the field of a human intervention output.
NodeTypes == {"InputNode", "Generic", "RouterNode", "CoalesceNode", "HumanInterventionNode"}

ForwardPairs == {p \in Nodes \X Nodes : p[1] < p[2]}

Link(s, t, h) == [source_id |-> s, target_id |-> t, source_handle |-> h]

Sources(links, n) == {l.source_id : l \in {k \in links : k.target_id = n}}

RECURSIVE Upstream(_, _)
Upstream(links, n) ==
    Sources(links, n) \cup UNION {Upstream(links, p) : p \in Sources(links, n)}

Downstream(links, n) == {m \in Nodes : n \in Upstream(links, m)}

\* Nodes that are not plain nodes whose invocation returns, nodes without
\* any incoming link, and an empty input mapping all count against
\* MaxSpecial, which keeps the family of workflows small.
Invocations(ty) ==
    CASE ty = "HumanInterventionNode" -> {"pause", "return"}
      [] ty \in {"Generic", "InputNode"} -> {"return", "throw"}
      [] OTHER -> {"return"}

IsSpecial(ty, iv, n) == ty[n] \notin {"Generic", "InputNode"} \/ iv[n] # "return"

Unconnected(pairs, n) == n # InputNodeId /\ ~(\E p \in pairs : p[2] = n)

SpecialCount(ty, iv, pairs, inp) ==
    Cardinality({n \in Nodes : IsSpecial(ty, iv, n)})
    + Cardinality({n \in Nodes : Unconnected(pairs, n)})
    + (IF inp = "empty" THEN 1 ELSE 0)

Inputs == {"empty", "nonempty"}

VARIABLES workflow, behaviour, input

\* request holds the other two arguments of run: node_ids (a set, empty for
\* the default) and precomputed_outputs, which maps node ids to "valid" or
\* "invalid" according to whether output_model.model_validate accepts the
\* supplied mapping.
VARIABLE request

NoPrecomputed == [n \in {} |-> "valid"]
DefaultRequest == [node_ids |-> {}, precomputed_outputs |-> NoPrecomputed]

\* The value that model_validate builds from the supplied mapping for n.
PrecomputedOutput(n) == Val("precomputed", n, NoHandle, {}, NoTime)

InitWorkflow ==
    \E ty \in [Nodes -> NodeTypes] :
      /\ \A n \in Nodes : (ty[n] = "InputNode") = (n = InputNodeId)
      /\ Cardinality({n \in Nodes : ty[n] # "Generic"}) <= MaxSpecial + 1
      /\ \E iv \in [Nodes -> {"return", "throw", "pause"}] :
        /\ \A n \in Nodes : iv[n] \in Invocations(ty[n])
        /\ Cardinality({n \in Nodes : IsSpecial(ty, iv, n)}) <= MaxSpecial
        /\ \E pairs \in SUBSET ForwardPairs, inp \in Inputs :
          /\ \A n \in Nodes : Cardinality({p \in pairs : p[2] = n}) <= MaxPreds
          /\ SpecialCount(ty, iv, pairs, inp) <= MaxSpecial
          /\ LET routed == {p \in pairs : ty[p[1]] = "RouterNode"}
                 routers == {n \in Nodes : ty[n] = "RouterNode"}
                 humans == {n \in Nodes : ty[n] = "HumanInterventionNode"}
             IN \E hs \in [routed -> Handles], rt \in [routers -> Handles],
                   bl \in [humans -> SUBSET (Nodes \ {InputNodeId})] :
                  LET links == {Link(p[1], p[2], IF p \in routed THEN hs[p] ELSE NoHandle)
                                : p \in pairs}
                  IN /\ \A h \in humans : bl[h] \subseteq Downstream(links, h)
                     /\ workflow = [node_type |-> ty, links |-> links]
                     /\ behaviour =
                          [invocation |-> iv,
                           route |-> [n \in Nodes |-> IF n \in routers THEN rt[n] ELSE NoHandle],
                           blocked_nodes |-> [n \in Nodes |-> IF n \in humans THEN bl[n] ELSE {}]]
                     /\ input = inp

\* ------------------------------------------------------ executor state
\* executor holds the fields of the WorkflowExecutor object, task_recorder
\* the calls received by the TaskRecorder (per node, in order), run_store
\* the status of the run record, calls the number of times per node that
\* _get_async_task_for_node_execution, asyncio.create_task,
\* NodeFactory.create_node (for an instance that is run) and a node instance
\* were called, that a non-null value was stored in outputs[n] (stored) and
\* that a non-null outputs[n] was removed or overwritten by None (dropped).  pc is the position of the coroutine run, gathered
\* the handles its gather awaits, run_result what run returned or raised.
VARIABLES executor, task_recorder, run_store, calls, pc, gathered, run_result

\* loader holds a definition given to _process_subworkflows and what it
\* returned; batch holds the state of a call of run_batch.  Both are idle in
\* the specifications of a single run.
VARIABLES loader, batch

vars == <<workflow, behaviour, input, request, executor, task_recorder, run_store, calls,
          pc, gathered, run_result, loader, batch>>

World == [executor |-> executor, task_recorder |-> task_recorder,
          run_store |-> run_store, calls |-> calls]

Commit(w) ==
    /\ executor' = w.executor
    /\ task_recorder' = w.task_recorder
    /\ run_store' = w.run_store
    /\ calls' = w.calls

NoInput == [k \in {} |-> None]
NoTask == [state |-> "none", result |-> Absent, node_input |-> NoInput]
ScheduledTask == [state |-> "scheduled", result |-> Absent, node_input |-> NoInput]

TaskDone(w, n) == w.executor.node_tasks[n].state = "done"
TaskRaised(w, n) == TaskDone(w, n) /\ IsException(w.executor.node_tasks[n].result)

\* WorkflowExecutor._build_dependencies
BuildDependencies(wf) == [n \in Nodes |-> Sources(wf.links, n)]

\* WorkflowExecutor.__init__
NewExecutor(wf) ==
    [dependencies |-> BuildDependencies(wf),
     initial_inputs |-> [n \in Nodes |-> "absent"],
     outputs |-> [n \in Nodes |-> Absent],
     failed_nodes |-> {},
     node_tasks |-> [n \in Nodes |-> NoTask],
     node_instances |-> {}]

\* A definition for _process_subworkflows: parent_id maps every node id to
\* the id of its parent (NoParent for None, an id outside Nodes for a parent
\* that is not a node of the definition), links is a set of pairs of ids.
\* In the result, nodes maps the ids of the root nodes to their parent_id and
\* to the subworkflow stored in their config (no nodes when none was stored).
NoParent == 0
NoSubworkflow == [nodes |-> [n \in {} |-> NoParent], links |-> {}]
IdleLoader ==
    [definition |-> [parent_id |-> [n \in {} |-> NoParent], links |-> {}],
     done |-> FALSE,
     result |-> [nodes |-> [n \in {} |-> [parent_id |-> NoParent,
                                          subworkflow |-> NoSubworkflow]],
                 links |-> {}]]

\* No call of run_batch.
IdleBatch ==
    [inputs |-> <<>>, batch_size |-> 0, pc |-> "idle", next |-> 1,
     batch_tasks |-> <<>>, runs |-> <<>>, results |-> <<>>]

\* The state of a freshly constructed executor.
InitExecutor ==
    /\ executor = NewExecutor(workflow)
    /\ task_recorder = [n \in Nodes |-> <<>>]
    /\ run_store = [status |-> "RUNNING"]
    /\ calls = [lookup |-> [n \in Nodes |-> 0],
                create_task |-> [n \in Nodes |-> 0],
                create_node |-> [n \in Nodes |-> 0],
                invoked |-> [n \in Nodes |-> 0],
                stored |-> [n \in Nodes |-> 0],
                dropped |-> [n \in Nodes |-> 0]]

NoResult == [kind |-> "none", node |-> 0, outputs |-> [n \in Nodes |-> Absent]]

\* One call of run that has not started, on a fresh executor.
SingleRun ==
    /\ InitExecutor
    /\ pc = "start"
    /\ gathered = {}
    /\ run_result = NoResult
    /\ loader = IdleLoader
    /\ batch = IdleBatch

Init ==
    /\ InitWorkflow
    /\ request = DefaultRequest
    /\ SingleRun

\* ------------------------------------------------------ output writes
IsValue(v) == v.kind \notin {"absent", "none"}

\* self._outputs[n] = v for an output v that is not None
StoreOutput(w, n, v) ==
    [w EXCEPT !.executor.outputs[n] = v, !.calls.stored[n] = @ + 1]

\* self._outputs[n] = None
StoreNone(w, n) ==
    [w EXCEPT !.executor.outputs[n] = None,
              !.calls.dropped[n] = IF IsValue(w.executor.outputs[n]) THEN @ + 1 ELSE @]

\* self._outputs.pop(n, None) for every n of ids
PopOutputs(w, ids) ==
    [w EXCEPT !.executor.outputs = [n \in Nodes |-> IF n \in ids THEN Absent ELSE @[n]],
              !.calls.dropped =
                  [n \in Nodes |-> IF n \in ids /\ IsValue(w.executor.outputs[n])
                                   THEN @[n] + 1 ELSE @[n]]]

\* ------------------------------------------------------------ recorder
Event(op, status, error, flag) ==
    [op |-> op, status |-> status, error |-> error, is_downstream_of_pause |-> flag]

RecorderCreateTask(w, n) ==
    [w EXCEPT !.task_recorder[n] = Append(@, Event("create_task", "", "", FALSE))]

UpdateTask(w, n, status, error, flag) ==
    [w EXCEPT !.task_recorder[n] = Append(@, Event("update_task", status, error, flag))]

\* ------------------------------------- _get_async_task_for_node_execution
\* A lookup that does not consult node_tasks and always makes a handle.
NewTasksUnchecked(w, ids) == ids

\* The ids among ids for which the lookup finds no handle and makes one.
NewTasks(w, ids) == {n \in ids : w.executor.node_tasks[n].state = "none"}

\* A lookup that makes the handles without telling the recorder.
RecordCreatedNever(w, ids) == w

\* The recorder's create_task for every handle the lookups have made.
RECURSIVE RecordCreated(_, _)
RecordCreated(w, ids) ==
    IF ids = {} THEN w
    ELSE LET n == CHOOSE m \in ids : TRUE
         IN RecordCreated(RecorderCreateTask(w, n), ids \ {n})

\* The lookups of every id of ids, one after the other without suspension.
GetAsyncTasksForNodeExecution(w, ids) ==
    LET new == NewTasks(w, ids)
        w1 == [w EXCEPT
                 !.executor.node_tasks =
                     [n \in Nodes |-> IF n \in new THEN ScheduledTask ELSE @[n]],
                 !.calls.lookup =
                     [n \in Nodes |-> IF n \in ids THEN @[n] + 1 ELSE @[n]],
                 !.calls.create_task =
                     [n \in Nodes |-> IF n \in new THEN @[n] + 1 ELSE @[n]]]
    IN RecordCreated(w1, new)

\* ------------------------------------------------------- _execute_node
Return(w, n, v) ==
    [w EXCEPT !.executor.node_tasks[n].state = "done",
              !.executor.node_tasks[n].result = v]

\* A handler that swallows UpstreamFailure: it cancels n and returns None.
ExceptUpstreamFailureSwallowed(w, n) ==
    Return(UpdateTask(StoreNone(w, n), n, "CANCELED", "Upstream failure", FALSE),
           n, None)

\* except UpstreamFailure: of _execute_node
ExceptUpstreamFailure(w, n) ==
    LET w1 == StoreNone([w EXCEPT !.executor.failed_nodes = @ \cup {n}], n)
    IN Return(UpdateTask(w1, n, "CANCELED", "Upstream failure", FALSE), n,
              Raised("UpstreamFailure", n))

\* except Exception: of _execute_node
ExceptException(w, n, exc) ==
    LET w1 == [w EXCEPT !.executor.failed_nodes = @ \cup {n}]
    IN Return(UpdateTask(w1, n, "FAILED", "traceback", FALSE), n, Raised(exc, n))

\* The two places that store None, record CANCELED and return None.
Cancel(w, n) ==
    Return(UpdateTask(StoreNone(w, n), n, "CANCELED", "", FALSE),
           n, None)

\* _get_source_handles raises ValueError for a router link without a handle.
SourceHandlesRaise(wf) ==
    \E l \in wf.links :
        wf.node_type[l.source_id] = "RouterNode" /\ l.source_handle = NoHandle

SourceHandle(wf, s, t) ==
    (CHOOSE l \in wf.links : l.source_id = s /\ l.target_id = t).source_handle

\* A lookup that takes the selected route whatever handle the link names.
RouteOutputAnyHandle(output, h) ==
    IF output.kind = "router" THEN RouteValue(output.node, output.handle) ELSE None

\* getattr(output, source_handle, None)
RouteOutput(output, h) ==
    IF output.kind = "router" /\ output.handle = h
    THEN RouteValue(output.node, h) ELSE None

\* A gate that holds n back as soon as any node of the run is paused.
PauseGatedByAnyNode(w, n) ==
    \E d \in Nodes \ {n} :
        LET output == w.executor.outputs[d]
        IN output.kind = "human" /\ output.resume_time = NoTime

\* Is n held back by the output of one of its predecessors: the loop over
\* dependency_ids that reads self._outputs.
PauseGated(w, n) ==
    \E d \in w.executor.dependencies[n] :
        LET output == w.executor.outputs[d]
        IN /\ output.kind = "human"
           /\ output.resume_time = NoTime
           /\ n \in output.blocked_nodes

\* What each predecessor contributes to node_input before None is dropped.
Contribution(wf, n, d, output) ==
    IF wf.node_type[d] = "RouterNode"
    THEN RouteOutput(output, SourceHandle(wf, d, n)) ELSE output

\* node_input after assembly, the InputNode case and the removal of None.
NodeInput(w, wf, n, predecessor_outputs) ==
    IF wf.node_type[n] = "InputNode"
    THEN IF w.executor.initial_inputs[n] = "nonempty"
         THEN [k \in {InputKey} |-> InputMapping]
         ELSE NoInput
    ELSE LET keep == {d \in DOMAIN predecessor_outputs :
                        ~IsNone(Contribution(wf, n, d, predecessor_outputs[d]))}
         IN [d \in keep |-> Contribution(wf, n, d, predecessor_outputs[d])]

\* A non-coalesce node that requires every predecessor to have returned None.
NullGatedAll(wf, n, predecessor_outputs) ==
    /\ wf.node_type[n] # "CoalesceNode"
    /\ DOMAIN predecessor_outputs # {}
    /\ \A d \in DOMAIN predecessor_outputs : IsNone(predecessor_outputs[d])

\* node_type != "CoalesceNode" and any(output is None ...)
NullGated(wf, n, predecessor_outputs) ==
    /\ wf.node_type[n] # "CoalesceNode"
    /\ \E d \in DOMAIN predecessor_outputs : IsNone(predecessor_outputs[d])

\* From the end of the wait for the predecessors to the await of the node
\* instance, or to the end of the task.
AfterDependencies(w, wf, n, predecessor_outputs) ==
    LET deps == w.executor.dependencies[n] IN
    IF PauseGated(w, n)
    THEN Return(UpdateTask(w, n, "PENDING", "", TRUE), n, None)
    ELSE IF \E d \in deps : d \in w.executor.failed_nodes
    THEN ExceptUpstreamFailure([w EXCEPT !.executor.failed_nodes = @ \cup {n}], n)
    ELSE IF NullGated(wf, n, predecessor_outputs)
    THEN Cancel(w, n)
    ELSE IF SourceHandlesRaise(wf)
    THEN ExceptException(w, n, "ValueError")
    ELSE IF \E d \in deps : /\ wf.node_type[d] = "RouterNode"
                            /\ IsNone(Contribution(wf, n, d, predecessor_outputs[d]))
    THEN Cancel(w, n)
    ELSE LET node_input == NodeInput(w, wf, n, predecessor_outputs)
             w1 == UpdateTask(w, n, "RUNNING", "", FALSE)
         IN IF DOMAIN node_input = {}
            THEN ExceptException(StoreNone(w1, n), n,
                                 "UnconnectedNode")
            ELSE LET w2 == [w1 EXCEPT !.calls.create_node[n] = @ + 1,
                                      !.executor.node_instances = @ \cup {n}]
                     w3 == UpdateTask(w2, n, "RUNNING", "", FALSE)
                 IN [w3 EXCEPT !.calls.invoked[n] = @ + 1,
                               !.executor.node_tasks[n].state = "invoking",
                               !.executor.node_tasks[n].node_input = node_input]

\* What awaiting the instance of n yields: a value, or an exception.
InvocationResult(wf, bh, n) ==
    CASE bh.invocation[n] = "throw" -> Raised("NodeFailure", n)
      [] bh.invocation[n] = "pause" ->
           Raised("PauseException", n)
      [] OTHER ->
           CASE wf.node_type[n] = "RouterNode" -> RouterOutput(n, bh.route[n])
             [] wf.node_type[n] = "HumanInterventionNode" ->
                  HumanInterventionNodeOutput(n, bh.blocked_nodes[n], SomeTime)
             [] OTHER -> PlainOutput(n)

\* e.output of the PauseException raised by n
PauseOutput(bh, n) == HumanInterventionNodeOutput(n, bh.blocked_nodes[n], NoTime)

\* The task of n runs from its creation to its first await.
StartNode(w, wf, n) ==
    IF w.executor.outputs[n] # Absent
    THEN Return(w, n, w.executor.outputs[n])
    ELSE IF w.executor.dependencies[n] # {}
    THEN [GetAsyncTasksForNodeExecution(w, w.executor.dependencies[n])
            EXCEPT !.executor.node_tasks[n].state = "awaiting"]
    ELSE AfterDependencies(w, wf, n, NoInput)

\* A wait that ends with the first handle that is done.
GatherReadyFirst(w, n) ==
    \E d \in w.executor.dependencies[n] : TaskDone(w, d)

\* A wait that ends only when every handle has returned a value, and never
\* when one has raised.
GatherReadyNeverRaises(w, n) ==
    \A d \in w.executor.dependencies[n] : TaskDone(w, d) /\ ~TaskRaised(w, d)

\* gather (without return_exceptions) wakes its awaiter when every handle
\* has returned, or as soon as one has raised.
GatherReady(w, n) ==
    LET deps == w.executor.dependencies[n]
    IN (\A d \in deps : TaskDone(w, d)) \/ (\E d \in deps : TaskRaised(w, d))

\* A wait that collects the exceptions of the predecessors as results.
ResumeCollectingExceptions(w, wf, n) ==
    AfterDependencies(w, wf, n,
        [d \in w.executor.dependencies[n] |-> w.executor.node_tasks[d].result])

ResumeAfterGather(w, wf, n) ==
    LET deps == w.executor.dependencies[n]
    IN IF \E d \in deps : TaskRaised(w, d)
       THEN ExceptUpstreamFailure(w, n)
       ELSE AfterDependencies(w, wf, n, [d \in deps |-> w.executor.node_tasks[d].result])

\* A task body that treats PauseException as a failure of n after it has
\* stored e.output.
FinishInvocationPauseFails(w, wf, bh, n) ==
    LET r == InvocationResult(wf, bh, n) IN
    CASE r.kind = "PauseException" ->
           ExceptException(StoreOutput(w, n, PauseOutput(bh, n)), n, r.kind)
      [] IsException(r) /\ r.kind # "PauseException" -> ExceptException(w, n, r.kind)
      [] OTHER ->
           LET w1 == UpdateTask(w, n, "COMPLETED", "", FALSE)
           IN Return(StoreOutput(w1, n, r), n, r)

\* The code after await node_instance(node_input), and its handlers.
FinishInvocation(w, wf, bh, n) ==
    LET r == InvocationResult(wf, bh, n) IN
    CASE r.kind = "PauseException" ->
           LET w1 == StoreOutput(w, n, PauseOutput(bh, n))
               w2 == UpdateTask(w1, n, "PAUSED", "", FALSE)
           IN Return([w2 EXCEPT !.run_store.status = "PAUSED"], n, PauseOutput(bh, n))
      [] IsException(r) /\ r.kind # "PauseException" -> ExceptException(w, n, r.kind)
      [] OTHER ->
           LET w1 == UpdateTask(w, n, "COMPLETED", "", FALSE)
           IN Return(StoreOutput(w1, n, r), n, r)

\* ------------------------------------------------------------------ run
\* The top-level InputNode that run looks up with next(...).
InputNodeOf(wf) == CHOOSE n \in Nodes : wf.node_type[n] = "InputNode"

\* The loop over precomputed_outputs: a mapping that validates is stored,
\* one that does not is skipped with a warning.
StorePrecomputed(w, precomputed_outputs) ==
    LET valid == {n \in DOMAIN precomputed_outputs : precomputed_outputs[n] = "valid"}
    IN [w EXCEPT !.executor.outputs =
                     [n \in Nodes |-> IF n \in valid THEN PrecomputedOutput(n) ELSE @[n]],
                 !.calls.stored =
                     [n \in Nodes |-> IF n \in valid THEN @[n] + 1 ELSE @[n]]]

\* run up to its first suspension: await input_node_obj(input).
BeginRun(w, wf, inp, req) ==
    LET i == InputNodeOf(wf)
    IN [StorePrecomputed(w, req.precomputed_outputs)
          EXCEPT !.executor.initial_inputs[i] = inp,
                 !.calls.create_node[i] = @ + 1,
                 !.calls.invoked[i] = @ + 1]

\* A driver that ignores node_ids and runs every node.
NodesToRunAll(wf, node_ids) == Nodes

\* nodes_to_run: every node, or node_ids when it is not empty.
NodesToRun(wf, node_ids) == IF node_ids # {} THEN node_ids ELSE Nodes

\* From the result of the input node to the gather over the handles.
LaunchTasks(w, wf, bh, node_ids) ==
    LET i == InputNodeOf(wf)
        w1 == StoreOutput(w, i, InvocationResult(wf, bh, i))
        w2 == PopOutputs(w1, NodesToRun(wf, node_ids))
    IN GetAsyncTasksForNodeExecution(w2, NodesToRun(wf, node_ids))

TaskHandles(w) == {n \in Nodes : w.executor.node_tasks[n].state # "none"}

\* The orders in which the sweep can meet the handles: the iteration order
\* of the set nodes_to_run, in which the handles were inserted.
Orders(S) ==
    {f \in [1..Cardinality(S) -> S] : \A a, b \in DOMAIN f : a # b => f[a] # f[b]}

\* The walk of the sweep from current_node towards paused_node_id, which
\* follows next(iter(deps)): every value it can compute.
RECURSIVE IsDownstream(_, _, _)
IsDownstream(w, current_node, paused_node_id) ==
    LET deps == w.executor.dependencies[current_node]
    IN IF paused_node_id \in deps THEN {TRUE}
       ELSE IF deps = {} THEN {FALSE}
       ELSE UNION {IsDownstream(w, d, paused_node_id) : d \in deps}

\* One iteration of the loop over zip(node_tasks.keys(), results); x holds
\* the world and paused_node_id (0 for None).
SweepStep(x, n) ==
    LET result == x.w.executor.node_tasks[n].result
        failed == [x EXCEPT !.w = StoreNone([@ EXCEPT !.executor.failed_nodes = @ \cup {n}], n)]
        pending == [x EXCEPT !.w = UpdateTask(@, n, "PENDING", "", TRUE)]
    IN IF result.kind = "PauseException"
       THEN {[x EXCEPT !.paused_node_id = result.node]}
       ELSE IF IsException(result)
       THEN IF x.paused_node_id # 0
            THEN {IF b THEN pending ELSE failed :
                    b \in IsDownstream(x.w, n, x.paused_node_id)}
            ELSE {failed}
       ELSE {x}

RECURSIVE Sweep(_, _, _)
Sweep(x, order, k) ==
    IF k > Len(order) THEN {x}
    ELSE UNION {Sweep(y, order, k + 1) : y \in SweepStep(x, order[k])}

\* What run hands to its caller after the sweep.
RunResult(x) ==
    IF x.paused_node_id # 0
    THEN [kind |-> "PauseException", node |-> x.paused_node_id,
          outputs |-> [n \in Nodes |-> Absent]]
    ELSE [kind |-> "returned", node |-> 0,
          outputs |-> [n \in Nodes |-> IF IsNone(x.w.executor.outputs[n])
                                       THEN Absent ELSE x.w.executor.outputs[n]]]

\* ------------------------------------------------------------- actions
\* The event loop runs the node tasks while run, or run_batch, is suspended
\* in its gather.
TasksRunning == pc = "gather" \/ batch.pc = "await"

NodeStart(n) ==
    /\ TasksRunning
    /\ executor.node_tasks[n].state = "scheduled"
    /\ Commit(StartNode(World, workflow, n))
    /\ UNCHANGED <<loader, batch, workflow, behaviour, input, request, pc, gathered, run_result>>

NodeResume(n) ==
    /\ TasksRunning
    /\ executor.node_tasks[n].state = "awaiting"
    /\ GatherReady(World, n)
    /\ Commit(ResumeAfterGather(World, workflow, n))
    /\ UNCHANGED <<loader, batch, workflow, behaviour, input, request, pc, gathered, run_result>>

NodeInvocationDone(n) ==
    /\ TasksRunning
    /\ executor.node_tasks[n].state = "invoking"
    /\ Commit(FinishInvocation(World, workflow, behaviour, n))
    /\ UNCHANGED <<loader, batch, workflow, behaviour, input, request, pc, gathered, run_result>>

RunStart ==
    /\ pc = "start"
    /\ Commit(BeginRun(World, workflow, input, request))
    /\ pc' = "input"
    /\ UNCHANGED <<loader, batch, workflow, behaviour, input, request, gathered, run_result>>

RunInputDone ==
    /\ pc = "input"
    /\ IF IsException(InvocationResult(workflow, behaviour, InputNodeOf(workflow)))
       THEN /\ pc' = "done"
            /\ run_result' = [run_result EXCEPT !.kind = "NodeFailure",
                                                !.node = InputNodeOf(workflow)]
            /\ UNCHANGED <<executor, task_recorder, run_store, calls, gathered>>
       ELSE /\ Commit(LaunchTasks(World, workflow, behaviour, request.node_ids))
            /\ gathered' = TaskHandles(LaunchTasks(World, workflow, behaviour, request.node_ids))
            /\ pc' = "gather"
            /\ UNCHANGED run_result
    /\ UNCHANGED <<loader, batch, workflow, behaviour, input, request>>

RunSweep ==
    /\ pc = "gather"
    /\ \A n \in gathered : TaskDone(World, n)
    /\ \E order \in Orders(gathered) :
         \E x \in Sweep([w |-> World, paused_node_id |-> 0], order, 1) :
            /\ Commit(x.w)
            /\ run_result' = RunResult(x)
    /\ pc' = "done"
    /\ UNCHANGED <<loader, batch, workflow, behaviour, input, request, gathered>>

Next ==
    \/ RunStart
    \/ RunInputDone
    \/ RunSweep
    \/ \E n \in Nodes : NodeStart(n)
    \/ \E n \in Nodes : NodeResume(n)
    \/ \E n \in Nodes : NodeInvocationDone(n)

Spec == Init /\ [][Next]_vars

\* The event loop never idles while a step is ready: as long as a node task
\* can take its next step, an awaited node instance can finish (it returns,
\* throws or raises PauseException) or run can be resumed, one of them
\* happens. Fairness to each single task implies this condition.
Fairness == WF_vars(Next)

\* The runs of SpecFair: default runs of the workflows in which the
\* invocation of some node that has a consumer throws or raises
\* PauseException, so that a handle awaits a predecessor that does not
\* return a value.
InitFair ==
    /\ Init
    /\ \E l \in workflow.links :
         IsException(InvocationResult(workflow, behaviour, l.source_id))

SpecFair == InitFair /\ [][Next]_vars /\ Fairness

\* ------------------------------------------------------- partial runs
\* The requests of SpecPartial: node_ids names at most MaxRequested nodes, or
\* precomputed outputs are supplied for at most MaxPrecomputed nodes that are
\* neither the InputNode, nor routers, nor human intervention nodes.
Requests(wf) ==
    LET supplied == {n \in Nodes : wf.node_type[n] \in {"Generic", "CoalesceNode"}}
        keys == {S \in SUBSET supplied : Cardinality(S) <= MaxPrecomputed}
        ids == {S \in SUBSET Nodes : Cardinality(S) <= MaxRequested}
    IN {req \in UNION {[node_ids : ids,
                        precomputed_outputs : [S -> {"valid", "invalid"}]] : S \in keys} :
            req # DefaultRequest}

\* The workflows of SpecPartial have fewer special nodes than those of Spec.
InitPartial ==
    /\ InitWorkflow
    /\ SpecialCount(workflow.node_type, behaviour.invocation,
                    {<<l.source_id, l.target_id>> : l \in workflow.links}, input)
          < MaxSpecial
    /\ request \in Requests(workflow)
    /\ SingleRun

SpecPartial == InitPartial /\ [][Next]_vars

\* ------------------------------------------------------ claim vocabulary
Done == pc = "done"

Updates(n) == SelectSeq(task_recorder[n], LAMBDA e : e.op = "update_task")

Recorded(n, status) == \E k \in DOMAIN Updates(n) : Updates(n)[k].status = status

LastUpdate(n) ==
    IF Updates(n) = <<>> THEN Event("update_task", "", "", FALSE)
    ELSE Updates(n)[Len(Updates(n))]

CreateTaskCalls(n) == Len(SelectSeq(task_recorder[n], LAMBDA e : e.op = "create_task"))

InvocationPaused(n) == Recorded(n, "PAUSED")

\* C1: whatever the interleaving of the lookups of a node's handle by the
\* driver and by its consumers, a node that was looked up has exactly one
\* handle made for it, and create_task was recorded for it once.
C1_OneHandlePerNode ==
    \A n \in Nodes :
        /\ calls.create_task[n] <= 1
        /\ CreateTaskCalls(n) <= 1
        /\ calls.lookup[n] >= 1 => calls.create_task[n] = 1 /\ CreateTaskCalls(n) = 1

\* A node looked up by the driver and by two consumers, at the end of a run.
C1_Witness ==
    /\ Done
    /\ \E n \in Nodes : calls.lookup[n] >= 3 /\ calls.create_task[n] = 1

\* C2: in one call of run the node factory instantiates each node, the
\* top-level InputNode included, at most once.
C2_FactoryAtMostOnce == \A n \in Nodes : calls.create_node[n] <= 1

\* C3: a node is invoked only when every one of its predecessors has a
\* finished handle: no predecessor is still waiting or being invoked.
C3_InvokedAfterPredecessors ==
    \A n \in Nodes : \A p \in executor.dependencies[n] :
        calls.invoked[n] >= 1
            => /\ TaskDone(World, p)
               /\ ~IsException(executor.node_tasks[p].result)

\* A node with two predecessors is being invoked.
C3_Witness ==
    \E n \in Nodes :
        /\ executor.node_tasks[n].state = "invoking"
        /\ Cardinality(executor.dependencies[n]) = 2
        /\ \A p \in executor.dependencies[n] : calls.invoked[p] >= 1

\* C4: a run in which the invocation of some node signalled Pause ends by
\* raising Pause to its caller.
C4_RunRaisesPause ==
    (Done /\ \E n \in Nodes : InvocationPaused(n)) => run_result.kind = "PauseException"

\* The stored output of h is that of a pause not yet resumed.
PausedOutput(h) ==
    /\ executor.outputs[h].kind = "human"
    /\ executor.outputs[h].resume_time = NoTime

\* C5: at the end of a run, a node that a paused human intervention node
\* among its ancestors (at any distance) names in blocked_nodes is recorded
\* PENDING with is_downstream_of_pause, and never FAILED nor CANCELED.
C5_BlockedNodesPending ==
    Done =>
        \A n \in Nodes : \A h \in Upstream(workflow.links, n) :
            (PausedOutput(h) /\ n \in executor.outputs[h].blocked_nodes)
                => /\ LastUpdate(n) = Event("update_task", "PENDING", "", TRUE)
                   /\ ~Recorded(n, "FAILED")
                   /\ ~Recorded(n, "CANCELED")

\* A node whose invocation returns a value and that always gets an input:
\* not a router, not paused, not throwing, not left without input.
Healthy(m) ==
    /\ behaviour.invocation[m] = "return"
    /\ workflow.node_type[m] # "RouterNode"
    /\ IF m = InputNodeOf(workflow) THEN input = "nonempty"
       ELSE executor.dependencies[m] # {}

\* A branch that no pause, failure or routing decision touches.
UnaffectedBranch(s) ==
    \A m \in {s} \cup Upstream(workflow.links, s) : Healthy(m)

Completed(s) ==
    /\ calls.invoked[s] >= 1
    /\ LastUpdate(s).status = "COMPLETED"
    /\ executor.outputs[s] = InvocationResult(workflow, behaviour, s)
    /\ run_result.kind = "returned" => run_result.outputs[s] = executor.outputs[s]

InvocationThrew(f) ==
    /\ TaskRaised(World, f)
    /\ executor.node_tasks[f].result.kind = "NodeFailure"

C7_TransitiveWitness ==
    /\ Done
    /\ \E f, d, e \in Nodes :
         /\ InvocationThrew(f)
         /\ d \in Sources(workflow.links, e) /\ f \in Sources(workflow.links, d)
         /\ f \notin Sources(workflow.links, e)
         /\ LastUpdate(e).error = "Upstream failure"

ReturnedNone(p) == TaskDone(World, p) /\ IsNone(executor.node_tasks[p].result)

Delivered(d, n) == Contribution(workflow, n, d, executor.node_tasks[d].result)

AllReturned(n) ==
    \A d \in executor.dependencies[n] : TaskDone(World, d) /\ ~TaskRaised(World, d)

\* C9: a CoalesceNode whose predecessors all returned, that no paused
\* predecessor blocks and to which at least one predecessor delivered a
\* non-null input, is invoked with exactly its non-null inputs, also when a
\* router predecessor delivers null through the handle of its link.
C9_CoalesceRunsOnPartialInput ==
    Done =>
        \A c \in Nodes :
            (/\ workflow.node_type[c] = "CoalesceNode"
             /\ AllReturned(c)
             /\ ~PauseGated(World, c)
             /\ \E d \in executor.dependencies[c] : ~IsNone(Delivered(d, c)))
                => /\ calls.invoked[c] = 1
                   /\ DOMAIN executor.node_tasks[c].node_input =
                        {d \in executor.dependencies[c] : ~IsNone(Delivered(d, c))}

RouterReturned(r) ==
    /\ workflow.node_type[r] = "RouterNode"
    /\ TaskDone(World, r)
    /\ executor.node_tasks[r].result.kind = "router"

InResultMap(n) == run_result.kind = "returned" /\ run_result.outputs[n] # Absent

OthersDeliver(c, r) ==
    /\ AllReturned(c)
    /\ ~PauseGated(World, c)
    /\ \A p \in executor.dependencies[c] \ {r} : ~IsNone(Delivered(p, c))

InitUnvalidated ==
    /\ \E ty \in [Nodes -> {"InputNode", "Generic", "RouterNode"}] :
         /\ \A n \in Nodes : (ty[n] = "InputNode") = (n = InputNodeId)
         /\ \E pairs \in SUBSET ForwardPairs, inp \in Inputs :
              /\ \A n \in Nodes : Cardinality({p \in pairs : p[2] = n}) <= MaxPreds
              /\ \A n \in Nodes : ~Unconnected(pairs, n)
              /\ LET routed == {p \in pairs : ty[p[1]] = "RouterNode"}
                     routers == {n \in Nodes : ty[n] = "RouterNode"}
                 IN \E hs \in [routed -> Handles \cup {NoHandle}], rt \in [routers -> Handles] :
                      /\ workflow =
                           [node_type |-> ty,
                            links |-> {Link(p[1], p[2], IF p \in routed THEN hs[p] ELSE NoHandle)
                                       : p \in pairs}]
                      /\ behaviour =
                           [invocation |-> [n \in Nodes |-> "return"],
                            route |-> [n \in Nodes |-> IF n \in routers THEN rt[n] ELSE NoHandle],
                            blocked_nodes |-> [n \in Nodes |-> {}]]
                      /\ input = inp
    /\ request = DefaultRequest
    /\ SingleRun

SpecUnvalidated == InitUnvalidated /\ [][Next]_vars

\* What one run on a fresh executor returns for input inp, when every node
\* is a connected plain node whose invocation returns: the output of every
\* node, or nothing when the input mapping is empty.
FreshRunResult(inp) ==
    [kind |-> "returned", node |-> 0,
     outputs |-> [n \in Nodes |-> IF inp = "nonempty"
                                  THEN InvocationResult(workflow, behaviour, n)
                                  ELSE Absent]]

NonEmptyInputs == {i \in DOMAIN batch.inputs : batch.inputs[i] = "nonempty"}

\* C12: when run_batch returns, the i-th result is what a fresh run on the
\* i-th input alone returns, and every node other than the InputNode was
\* invoked once for each input that lets it run.
C12_BatchRunsIndependent ==
    batch.pc = "done" =>
        /\ \A i \in DOMAIN batch.results :
             batch.results[i] = FreshRunResult(batch.inputs[i])
        /\ \A n \in Nodes \ {InputNodeOf(workflow)} :
             calls.invoked[n] = Cardinality(NonEmptyInputs)

\* The runs whose task was made and has not finished.
InFlight == {i \in DOMAIN batch.runs : batch.runs[i].pc \in {"start", "input", "gather"}}

\* C13: run_batch never has more than batch_size runs in flight; when it
\* ends it has started a run for every input of the stream and returns the
\* list of their results in the order of the inputs.
C13_BatchCapAndOrder ==
    /\ Cardinality(InFlight) <= batch.batch_size
    /\ batch.pc \in {"done", "raised"} =>
          /\ batch.pc = "done"
          /\ \A i \in DOMAIN batch.runs : batch.runs[i].pc = "done"
          /\ Len(batch.results) = Len(batch.inputs)
          /\ \A i \in DOMAIN batch.results : batch.results[i] = batch.runs[i].result

\* C14: a workflow with a link out of a RouterNode that has an empty
\* source_handle is rejected with InvalidGraph before any execution handle is
\* made and before any node is invoked.
C14_InvalidGraphRejected ==
    SourceHandlesRaise(workflow) =>
        /\ \A n \in Nodes : calls.create_task[n] = 0 /\ calls.invoked[n] = 0
        /\ Done => run_result.kind = "InvalidGraph"

\* ------------------------------------------------------------ run_batch
\* batch.inputs is the stream of inputs, batch.runs[i] the coroutine of
\* self.run(inputs[i]) (pc "none" until its task is made), batch.batch_tasks
\* the indices of the runs of the current batch, batch.next the index of the
\* next input the for loop will take, batch.results the list results.
BatchRun(pc_, gathered_, result) == [pc |-> pc_, gathered |-> gathered_, result |-> result]

Min(a, b) == IF a < b THEN a ELSE b

\* The for loop of run_batch from where it stands to its next await, or to
\* its return.
FillBatch(b) ==
    IF b.next > Len(b.inputs)
    THEN [b EXCEPT !.pc = "done"]
    ELSE LET last == Min(b.next + b.batch_size - 1, Len(b.inputs))
         IN [b EXCEPT !.batch_tasks = [k \in 1..(last - b.next + 1) |-> b.next + k - 1],
                      !.runs = [i \in DOMAIN b.runs |->
                                  IF i \in b.next..last
                                  THEN BatchRun("start", {}, NoResult) ELSE @[i]],
                      !.next = last + 1,
                      !.pc = "await"]

RunRaised(b, i) == b.runs[i].pc = "done" /\ b.runs[i].result.kind # "returned"

\* run_batch starts: the loop makes the tasks of the first batch.
RunBatchStart ==
    /\ batch.pc = "loop"
    /\ batch' = FillBatch(batch)
    /\ UNCHANGED <<loader, workflow, behaviour, input, request, executor, task_recorder,
                   run_store, calls, pc, gathered, run_result>>

\* The gather over batch_tasks ends: with the results of the batch, which
\* extend results before the loop goes on, or with the exception of a run.
RunBatchResume ==
    /\ batch.pc = "await"
    /\ LET tasks == {batch.batch_tasks[k] : k \in DOMAIN batch.batch_tasks}
       IN /\ \/ \A i \in tasks : batch.runs[i].pc = "done"
             \/ \E i \in tasks : RunRaised(batch, i)
          /\ IF \E i \in tasks : RunRaised(batch, i)
             THEN batch' = [batch EXCEPT !.pc = "raised"]
             ELSE batch' = FillBatch(
                     [batch EXCEPT !.results = @ \o [k \in DOMAIN batch.batch_tasks |->
                                                        batch.runs[batch.batch_tasks[k]].result],
                                   !.batch_tasks = <<>>])
    /\ UNCHANGED <<loader, workflow, behaviour, input, request, executor, task_recorder,
                   run_store, calls, pc, gathered, run_result>>

\* The i-th run, from its start to await input_node_obj(input).
BatchRunStart(i) ==
    /\ batch.pc = "await"
    /\ i \in DOMAIN batch.runs
    /\ batch.runs[i].pc = "start"
    /\ Commit(BeginRun(World, workflow, batch.inputs[i], DefaultRequest))
    /\ batch' = [batch EXCEPT !.runs[i].pc = "input"]
    /\ UNCHANGED <<loader, workflow, behaviour, input, request, pc, gathered, run_result>>

\* The i-th run, from the result of the input node to its gather.
BatchRunInputDone(i) ==
    /\ batch.pc = "await"
    /\ i \in DOMAIN batch.runs
    /\ batch.runs[i].pc = "input"
    /\ IF IsException(InvocationResult(workflow, behaviour, InputNodeOf(workflow)))
       THEN /\ batch' = [batch EXCEPT !.runs[i] =
                            BatchRun("done", {},
                                     [NoResult EXCEPT !.kind = "NodeFailure",
                                                      !.node = InputNodeOf(workflow)])]
            /\ UNCHANGED <<executor, task_recorder, run_store, calls>>
       ELSE LET w == LaunchTasks(World, workflow, behaviour, DefaultRequest.node_ids)
            IN /\ Commit(w)
               /\ batch' = [batch EXCEPT !.runs[i] =
                               BatchRun("gather", TaskHandles(w), NoResult)]
    /\ UNCHANGED <<loader, workflow, behaviour, input, request, pc, gathered, run_result>>

\* The i-th run, from the end of its gather to its return.
BatchRunSweep(i) ==
    /\ batch.pc = "await"
    /\ i \in DOMAIN batch.runs
    /\ batch.runs[i].pc = "gather"
    /\ \A n \in batch.runs[i].gathered : TaskDone(World, n)
    /\ \E order \in Orders(batch.runs[i].gathered) :
         \E x \in Sweep([w |-> World, paused_node_id |-> 0], order, 1) :
            /\ Commit(x.w)
            /\ batch' = [batch EXCEPT !.runs[i] = BatchRun("done", @.gathered, RunResult(x))]
    /\ UNCHANGED <<loader, workflow, behaviour, input, request, pc, gathered, run_result>>

\* The batches of SpecBatch: a stream of at most MaxInputs inputs and a
\* batch_size of at most MaxBatch, over a workflow of connected plain nodes
\* whose invocations return, except that the InputNode's may throw.
InitBatch ==
    /\ InitWorkflow
    /\ input = "nonempty"
    /\ \A n \in Nodes \ {InputNodeId} :
         /\ workflow.node_type[n] = "Generic"
         /\ behaviour.invocation[n] = "return"
         /\ Sources(workflow.links, n) # {}
    /\ request = DefaultRequest
    /\ InitExecutor
    /\ pc = "idle"
    /\ gathered = {}
    /\ run_result = NoResult
    /\ loader = IdleLoader
    /\ \E k \in 1..MaxInputs, size \in 1..MaxBatch :
         \E inputs \in [1..k -> Inputs] :
            batch = [inputs |-> inputs, batch_size |-> size, pc |-> "loop", next |-> 1,
                     batch_tasks |-> <<>>,
                     runs |-> [i \in 1..k |-> BatchRun("none", {}, NoResult)],
                     results |-> <<>>]

NextBatch ==
    \/ RunBatchStart
    \/ RunBatchResume
    \/ \E i \in 1..MaxInputs : BatchRunStart(i)
    \/ \E i \in 1..MaxInputs : BatchRunInputDone(i)
    \/ \E i \in 1..MaxInputs : BatchRunSweep(i)
    \/ \E n \in Nodes : NodeStart(n)
    \/ \E n \in Nodes : NodeResume(n)
    \/ \E n \in Nodes : NodeInvocationDone(n)

SpecBatch == InitBatch /\ [][NextBatch]_vars

\* ------------------------------------------------ subworkflow hoisting
\* WorkflowExecutor._process_subworkflows
NodesByParent(d, p) == {n \in DOMAIN d.parent_id : d.parent_id[n] = p}

\* The subworkflow built for parent p: its children with parent_id cleared
\* and the links with both ends among them.
Subworkflow(d, p) ==
    LET child_node_ids == NodesByParent(d, p)
    IN [nodes |-> [c \in child_node_ids |-> NoParent],
        links |-> {l \in d.links : l[1] \in child_node_ids /\ l[2] \in child_node_ids}]

ProcessSubworkflows(d) ==
    LET root_nodes == NodesByParent(d, NoParent)
        parents == {d.parent_id[n] : n \in DOMAIN d.parent_id} \ {NoParent}
    IN [nodes |-> [n \in root_nodes |->
                     [parent_id |-> NoParent,
                      subworkflow |-> IF n \in parents THEN Subworkflow(d, n)
                                      ELSE NoSubworkflow]],
        links |-> {l \in d.links :
                     \A n \in DOMAIN d.parent_id :
                        n \in {l[1], l[2]} => d.parent_id[n] = NoParent}]

\* The definitions of SpecHoist: every node of Nodes with any parent (none,
\* another node, or an id that is not a node), and links between nodes that
\* have the same parent, so that no link crosses a parent boundary.
AbsentParent == MaxNodes + 1

Definitions ==
    UNION {[parent_id : {f},
            links : SUBSET {l \in ForwardPairs : f[l[1]] = f[l[2]]}] :
           f \in {g \in [Nodes -> {NoParent, AbsentParent} \cup Nodes] :
                    \A n \in Nodes : g[n] # n}}

\* No executor is running: the variables of run hold fixed values.
NoRun ==
    /\ workflow = [node_type |-> [n \in Nodes |-> IF n = InputNodeId THEN "InputNode"
                                                 ELSE "Generic"],
                   links |-> {}]
    /\ behaviour = [invocation |-> [n \in Nodes |-> "return"],
                    route |-> [n \in Nodes |-> NoHandle],
                    blocked_nodes |-> [n \in Nodes |-> {}]]
    /\ input = "nonempty"
    /\ request = DefaultRequest
    /\ InitExecutor
    /\ pc = "idle"
    /\ gathered = {}
    /\ run_result = NoResult
    /\ batch = IdleBatch

InitHoist ==
    /\ NoRun
    /\ \E d \in Definitions : loader = [IdleLoader EXCEPT !.definition = d]

Hoist ==
    /\ ~loader.done
    /\ loader' = [loader EXCEPT !.done = TRUE,
                                !.result = ProcessSubworkflows(loader.definition)]
    /\ UNCHANGED <<workflow, behaviour, input, request, executor, task_recorder,
                   run_store, calls, pc, gathered, run_result, batch>>

NextHoist == Hoist

SpecHoist == InitHoist /\ [][NextHoist]_vars

\* The links of the definition that the result no longer has at top level.
RemovedLinks == loader.definition.links \ loader.result.links

\* The root nodes of the result whose subworkflow holds link l.
HoldersOf(l) ==
    {p \in DOMAIN loader.result.nodes : l \in loader.result.nodes[p].subworkflow.links}

\* C15: after hoisting, no node of the result (root nodes and the nodes of
\* their subworkflows) has a parent_id, and every link removed from the top
\* level is in the subworkflow links of exactly one parent, also when the
\* parent of a child is itself a child or is not a node of the definition.
C15_HoistingKeepsLinks ==
    loader.done =>
        /\ \A n \in DOMAIN loader.result.nodes :
             /\ loader.result.nodes[n].parent_id = NoParent
             /\ \A c \in DOMAIN loader.result.nodes[n].subworkflow.nodes :
                  loader.result.nodes[n].subworkflow.nodes[c] = NoParent
        /\ \A l \in RemovedLinks : Cardinality(HoldersOf(l)) = 1

\* A node for which run was given a precomputed output that validates.
ValidPrecomputed(m) ==
    /\ m \in DOMAIN request.precomputed_outputs
    /\ request.precomputed_outputs[m] = "valid"

\* C11: a node given a valid precomputed output is never invoked during the
\* run, whatever node_ids is, and every consumer of it that is invoked has
\* the supplied output as its input from that node.
C11_PrecomputedNotInvoked ==
    \A m \in Nodes : ValidPrecomputed(m) =>
        /\ calls.invoked[m] = 0
        /\ \A c \in Nodes :
             (m \in executor.dependencies[c] /\ calls.invoked[c] >= 1)
                => /\ m \in DOMAIN executor.node_tasks[c].node_input
                   /\ executor.node_tasks[c].node_input[m] = PrecomputedOutput(m)

\* C16: within a run a non-null value is stored for a node at most once, and
\* a stored non-null output is never removed nor overwritten by None, from
\* the start-up of run to the end of the driver sweep.
C16_OutputWrittenOnce ==
    \A n \in Nodes : calls.stored[n] <= 1 /\ calls.dropped[n] = 0

\* The nodes that failed, were canceled, were skipped for an upstream
\* failure or were deferred by a pause.
NotCompleted(n) ==
    \/ n \in executor.failed_nodes
    \/ LastUpdate(n).status \in {"FAILED", "CANCELED", "PENDING"}

\* C17: run never raises because of a node failure, and the map it returns
\* holds exactly the nodes whose output is non-null at that point, none of
\* which failed, was canceled, skipped or deferred.
C17_ReturnedMap ==
    Done =>
        /\ run_result.kind # "NodeFailure"
        /\ run_result.kind = "returned" =>
              \A n \in Nodes :
                 /\ InResultMap(n) <=> IsValue(executor.outputs[n])
                 /\ InResultMap(n) => run_result.outputs[n] = executor.outputs[n]
                 /\ NotCompleted(n) => ~InResultMap(n)

\* C18: when run has returned or raised, every execution handle made during
\* the run has finished, whatever node_ids is: also the handles of
\* predecessors that a consumer started on demand.
C18_HandlesFinished ==
    Done => \A n \in Nodes : executor.node_tasks[n].state \in {"none", "done"}

\* C19: at the end of a run in which a node paused, a node whose handle
\* raised and that is transitively downstream of a paused node is recorded
\* PENDING with is_downstream_of_pause, is not in failed_nodes and has no
\* None stored for it; every other node whose handle raised is in
\* failed_nodes with None as its output.
C19_SweepDowngrades ==
    (Done /\ \E h \in Nodes : InvocationPaused(h)) =>
        \A n \in Nodes : TaskRaised(World, n) =>
            IF \E h \in Upstream(workflow.links, n) : InvocationPaused(h)
            THEN /\ LastUpdate(n) = Event("update_task", "PENDING", "", TRUE)
                 /\ n \notin executor.failed_nodes
                 /\ ~IsNone(executor.outputs[n])
            ELSE /\ n \in executor.failed_nodes
                 /\ IsNone(executor.outputs[n])

\* C20: a node whose predecessors all returned and that a paused direct
\* predecessor names in blocked_nodes is never invoked, is recorded PENDING
\* with is_downstream_of_pause, has None stored as its output, has a handle
\* that returned None, and is not in failed_nodes.
C20_PauseGating ==
    \A n \in Nodes :
        (TaskDone(World, n) /\ AllReturned(n) /\ PauseGated(World, n))
            => /\ calls.invoked[n] = 0
               /\ LastUpdate(n) = Event("update_task", "PENDING", "", TRUE)
               /\ executor.outputs[n] = None
               /\ executor.node_tasks[n].result = None
               /\ n \notin executor.failed_nodes

\* C21: failed_nodes never loses a member during a run, and at the end of a
\* run with the default node_ids and no precomputed outputs every node with
\* a predecessor in failed_nodes is itself in failed_nodes, was never
\* invoked and has None as its output.
C21_FailedNodesClosed ==
    /\ [](Done =>
            \A n \in Nodes :
                (\E p \in executor.dependencies[n] : p \in executor.failed_nodes)
                    => /\ n \in executor.failed_nodes
                       /\ calls.invoked[n] = 0
                       /\ IsNone(executor.outputs[n]))
    /\ [][executor.failed_nodes \subseteq executor'.failed_nodes]_vars

\* A run ends with a failed node, a consumer of it and a consumer of that
\* consumer, all three in failed_nodes.
C21_Witness ==
    /\ Done
    /\ \E f, n, m \in Nodes :
         /\ f \in executor.dependencies[n] /\ n \in executor.dependencies[m]
         /\ {f, n, m} \subseteq executor.failed_nodes
         /\ IsNone(executor.outputs[m])

\* The transitive predecessors of the requested nodes.
Needed == UNION {Upstream(workflow.links, r) : r \in request.node_ids}

Terminal(n) ==
    /\ executor.node_tasks[n].state = "done"
    /\ LastUpdate(n).status \in {"COMPLETED", "PAUSED", "CANCELED", "PENDING", "FAILED"}

C24_CreateBeforeUpdate ==
    \A n \in Nodes :
        \A k \in DOMAIN task_recorder[n] :
            task_recorder[n][k].op = "update_task"
                => \E j \in 1..(k - 1) : task_recorder[n][j].op = "create_task"

\* A requested node and a predecessor of it outside node_ids, whose handle
\* was made on demand by the lookup in the task body of the requested node,
\* have each received create_task and then their updates.
C24_Witness ==
    \E n, c \in Nodes :
        /\ n \in executor.dependencies[c]
        /\ c \in request.node_ids /\ n \notin request.node_ids
        /\ \A m \in {n, c} :
             /\ Len(task_recorder[m]) >= 3
             /\ task_recorder[m][1].op = "create_task"
             /\ task_recorder[m][2].op = "update_task"
        /\ LastUpdate(n).status = "COMPLETED"
        /\ LastUpdate(c).status = "COMPLETED"

====
